---- MODULE Spec2Model ----
(***************************************************************************)
(* Model of src/appium.js: the Appium server / WebDriver client helper     *)
(* (Appium_Helper) and the device helper (Device_Helper).                  *)
(*                                                                         *)
(* The helpers are independent of each other, so each group of operations  *)
(* has its own specification over the shared variables:                    *)
(*   SpecBoot    checkBooted (the boot-animation polling loop)             *)
(*   SpecCert    getCert / getProfile                                      *)
(*   SpecClient  startClient / stopClient                                  *)
(*   SpecServ    runAppium / quitServ / killEmu                            *)
(*   SpecLaunch  launchEmu / launchGeny, with the checkBooted they call    *)
(***************************************************************************)
EXTENDS Integers, Sequences, FiniteSets, TLC

VARIABLES
    \* ---- checkBooted ----
    cmd,            \* the adb command line chosen from the platform argument
    bootTimeout,    \* the setTimeout(..., 10000): "none" | "armed" | "fired"
    interval,       \* the setInterval(..., 3000): "none" | "active" | "cleared"
    count,          \* the closure variable count
    issued,         \* number of childProcess.exec calls made so far
    inFlight,       \* exec calls whose callback has not run yet
    bootPromise,    \* "none" | "pending" | "resolved" | "rejTimeout" | "rejError"
    plainRun,       \* history: every processed result so far had no 'stopped' and no error
    lastResult,     \* history: the result the last exec callback processed
    \* ---- getCert / getProfile ----
    platform,       \* process.platform
    lookup,         \* the current / last getCert or getProfile call
    \* ---- startClient / stopClient ----
    globalDriver,   \* global.driver: NoDriver or a driver id
    globalWebdriver,\* global.webdriver: Absent or "wd"
    nextDriver,     \* id of the next driver wd.promiseChainRemote creates
    drivers,        \* per driver id: the state of its WebDriver session
    start,          \* the current / last startClient call
    stop,           \* the current / last stopClient call
    opLog,          \* history: the last two client operations called
    \* ---- runAppium / quitServ / killEmu ----
    appium,         \* the current / last runAppium call
    serv,           \* the current / last quitServ or killEmu call
    \* ---- launchEmu / launchGeny ----
    launch          \* the launchEmu or launchGeny call

bootVars   == <<cmd, bootTimeout, interval, count, issued, inFlight, bootPromise,
                plainRun, lastResult>>
certVars   == <<lookup>>
clientVars == <<globalDriver, globalWebdriver, nextDriver, drivers, start, stop,
                opLog>>
servVars   == <<appium, serv>>
launchVars == <<launch>>
vars       == <<bootVars, certVars, clientVars, servVars, launchVars, platform>>

\* what each group of operations leaves alone
BootFrame   == UNCHANGED <<certVars, clientVars, servVars, launchVars, platform>>
CertFrame   == UNCHANGED <<bootVars, clientVars, servVars, launchVars, platform>>
ClientFrame == UNCHANGED <<bootVars, certVars, servVars, launchVars, platform>>
ServFrame   == UNCHANGED <<bootVars, certVars, clientVars, launchVars, platform>>
LaunchFrame == UNCHANGED <<certVars, clientVars, servVars, platform>>

\* an absent global.webdriver
Absent == "absent"

(***************************************************************************)
(* Promises settle once: resolve / reject on a settled promise is a no-op. *)
(***************************************************************************)
Settle(promise, outcome) ==
    IF promise = "pending" THEN outcome ELSE promise

\* process.platform values the helpers distinguish, and one they do not
Platforms == {"darwin", "win32", "linux"}

(***************************************************************************)
(*                              checkBooted                                *)
(***************************************************************************)
\* number of processed results after which the poll gives up (count >= 20)
MaxSequences == 20

\* bounds of the model: exec calls outstanding at once, and exec calls in all
MaxInFlight == 2
MaxIssued == 23

BootPlatforms == {"emulator", "genymotion", "device"}

\* afterPlain: every result processed before this one was plain
NoResult == [stopped |-> FALSE, error |-> FALSE, seen |-> FALSE, afterPlain |-> TRUE]

BootIdle ==
    /\ cmd = "none"
    /\ bootTimeout = "none"
    /\ interval = "none"
    /\ count = 0
    /\ issued = 0
    /\ inFlight = 0
    /\ bootPromise = "none"
    /\ plainRun = TRUE
    /\ lastResult = NoResult

\* line 404: the command by platform
BootCmd(p) ==
    IF p = "emulator" \/ p = "genymotion"
    THEN "adb -e shell getprop init.svc.bootanim"
    ELSE "adb -d shell getprop init.svc.bootanim"

\* checkBooted(platform), lines 400-433 up to the return of the promise:
\* creates the promise and arms the initial delay
CheckBooted(p) ==
    /\ bootPromise = "none"
    /\ cmd' = BootCmd(p)
    /\ bootTimeout' = "armed"
    /\ bootPromise' = "pending"
    /\ UNCHANGED <<interval, count, issued, inFlight, plainRun, lastResult>>

\* checkBooted called on its own
CheckBootedStart(p) ==
    /\ BootFrame
    /\ CheckBooted(p)

\* the setTimeout callback: starts the interval
BootTimeoutFires ==
    /\ BootFrame
    /\ bootTimeout = "armed"
    /\ bootTimeout' = "fired"
    /\ interval' = "active"
    /\ UNCHANGED <<cmd, count, issued, inFlight, bootPromise, plainRun, lastResult>>

\* the setInterval callback: issues one exec, whatever is still outstanding
IntervalTick ==
    /\ BootFrame
    /\ interval = "active"
    /\ inFlight < MaxInFlight
    /\ issued < MaxIssued
    /\ issued' = issued + 1
    /\ inFlight' = inFlight + 1
    /\ UNCHANGED <<cmd, bootTimeout, interval, count, bootPromise, plainRun, lastResult>>

\* faulty variant: gives up only after the 21st result (count > 20)
BootOutcomeCountAfter(cnt, stopped, error) ==
    IF stopped THEN "resolve"
    ELSE IF cnt > MaxSequences THEN "timeout"
    ELSE IF error THEN "error"
    ELSE "continue"

\* faulty variant: tests the count before it looks for 'stopped'
BootOutcomeCountFirst(cnt, stopped, error) ==
    IF cnt >= MaxSequences THEN "timeout"
    ELSE IF stopped THEN "resolve"
    ELSE IF error THEN "error"
    ELSE "continue"

\* faulty variant: a command error does not end the polling
BootOutcomeErrorIgnored(cnt, stopped, error) ==
    IF stopped THEN "resolve"
    ELSE IF cnt >= MaxSequences THEN "timeout"
    ELSE "continue"

\* faulty variant: no test of the count
BootOutcomeNoCap(cnt, stopped, error) ==
    IF stopped THEN "resolve"
    ELSE IF error THEN "error"
    ELSE "continue"

\* what the exec callback decides, lines 411-428, in the code's order
BootOutcome(cnt, stopped, error) ==
    IF stopped THEN "resolve"
    ELSE IF cnt >= MaxSequences THEN "timeout"
    ELSE IF error THEN "error"
    ELSE "continue"

\* the exec callback (error, stdout, stderr); stderr is only logged
ExecCallback(stopped, error) ==
    /\ BootFrame
    /\ inFlight > 0
    /\ inFlight' = inFlight - 1
    /\ count' = count + 1
    /\ LET outcome == BootOutcome(count + 1, stopped, error)
       IN  /\ interval' = IF outcome = "continue" THEN interval ELSE "cleared"
           /\ bootPromise' =
                CASE outcome = "resolve" -> Settle(bootPromise, "resolved")
                  [] outcome = "timeout" -> Settle(bootPromise, "rejTimeout")
                  [] outcome = "error"   -> Settle(bootPromise, "rejError")
                  [] OTHER               -> bootPromise
    /\ plainRun' = (plainRun /\ ~stopped /\ ~error)
    /\ lastResult' = [stopped |-> stopped, error |-> error, seen |-> TRUE,
                      afterPlain |-> plainRun]
    /\ UNCHANGED <<cmd, bootTimeout, issued>>

BootNext ==
    \/ \E p \in BootPlatforms : CheckBootedStart(p)
    \/ BootTimeoutFires
    \/ IntervalTick
    \/ \E stopped \in BOOLEAN, error \in BOOLEAN : ExecCallback(stopped, error)

(***************************************************************************)
(*                          getCert / getProfile                           *)
(***************************************************************************)
\* bound of the model: records ioslib returns for one type
MaxRecs == 2

\* record names and search terms, as sequences of characters
Names == {<<"a">>, <<"b">>, <<"a", "b">>, <<"b", "a">>}
SearchTerms == Names \cup {<<>>}

\* the type arguments tried; the last one is valid for neither lookup
Types == {"developer", "distribution", "adhoc", "development", "enterprise"}

\* lines 318 and 354
ValidCertTypes == {"developer", "distribution"}
ValidProfileTypes == {"adhoc", "development", "distribution"}

\* the value of an unassigned `let foundCert`
NoRecord == [id |-> 0, name |-> <<>>]

\* what ioslib may return for one type: records told apart by their position
RecordLists ==
    UNION {{[i \in 1..n |-> [id |-> i, name |-> f[i]]] : f \in [1..n -> Names]} :
           n \in 0..MaxRecs}

\* String.prototype.includes
Includes(s, t) ==
    \E i \in 1..(Len(s) - Len(t) + 1) : SubSeq(s, i, i + Len(t) - 1) = t

\* faulty variant: compares the whole name, as getProfile does
CertMatchesExact(cert, search) ==
    cert.name = search

\* line 327: cert.name.includes(search)
CertMatches(cert, search) ==
    Includes(cert.name, search)

\* line 363: profile.name === search
ProfileMatches(profile, search) ==
    profile.name = search

\* lines 326-330: the forEach over subCerts, each match overwriting foundCert
RECURSIVE CertScanFrom(_, _, _, _)
CertScanFrom(subCerts, search, i, foundCert) ==
    IF i > Len(subCerts) THEN foundCert
    ELSE CertScanFrom(subCerts, search, i + 1,
                      IF CertMatches(subCerts[i], search) THEN subCerts[i]
                      ELSE foundCert)

\* faulty variant: the scan stops one record short
CertScanSkipLast(subCerts, search) ==
    IF subCerts = <<>> THEN NoRecord
    ELSE CertScanFrom(SubSeq(subCerts, 1, Len(subCerts) - 1), search, 1, NoRecord)

\* lines 324-330: foundCert after the forEach
CertScan(subCerts, search) ==
    CertScanFrom(subCerts, search, 1, NoRecord)

\* lines 362-366: the forEach over subProfiles
RECURSIVE ProfileScanFrom(_, _, _, _)
ProfileScanFrom(subProfiles, search, i, foundProfile) ==
    IF i > Len(subProfiles) THEN foundProfile
    ELSE ProfileScanFrom(subProfiles, search, i + 1,
                         IF ProfileMatches(subProfiles[i], search) THEN subProfiles[i]
                         ELSE foundProfile)

\* faulty variant: the first match is kept
ProfileScanFirst(subProfiles, search) ==
    IF \E i \in 1..Len(subProfiles) : ProfileMatches(subProfiles[i], search)
    THEN subProfiles[CHOOSE i \in 1..Len(subProfiles) :
                       /\ ProfileMatches(subProfiles[i], search)
                       /\ \A j \in 1..(i - 1) :
                            ~ProfileMatches(subProfiles[j], search)]
    ELSE NoRecord

\* lines 360-366: foundProfile after the forEach
ProfileScan(subProfiles, search) ==
    ProfileScanFrom(subProfiles, search, 1, NoRecord)

LookupIdle ==
    [fn |-> "none", type |-> "none", search |-> <<>>, pc |-> "idle",
     libCalled |-> FALSE, libOk |-> FALSE, records |-> <<>>,
     result |-> "none", value |-> NoRecord]

\* faulty variant: no test of process.platform
LookupCallAnyPlatform(fn, type, search) ==
    /\ CertFrame
    /\ lookup.pc \in {"idle", "done"}
    /\ lookup' = [LookupIdle EXCEPT !.fn = fn, !.type = type, !.search = search,
                                    !.pc = "awaitLib", !.libCalled = TRUE,
                                    !.result = "pending"]

\* getCert / getProfile up to the await: lines 311-316 and 347-352
LookupCall(fn, type, search) ==
    /\ CertFrame
    /\ lookup.pc \in {"idle", "done"}
    /\ lookup' =
         IF platform # "darwin"
         THEN [LookupIdle EXCEPT !.fn = fn, !.type = type, !.search = search,
                                 !.pc = "done", !.result = "undefined"]
         ELSE [LookupIdle EXCEPT !.fn = fn, !.type = type, !.search = search,
                                 !.pc = "awaitLib", !.libCalled = TRUE,
                                 !.result = "pending"]

GetCertCall(type, search) == LookupCall("getCert", type, search)

GetProfileCall(type, search) == LookupCall("getProfile", type, search)

\* getCert after ioslib.certs.getCerts() returned or failed: lines 316-336
GetCertResume(libOk, subCerts) ==
    /\ CertFrame
    /\ lookup.pc = "awaitLib"
    /\ lookup.fn = "getCert"
    /\ LET foundCert == CertScan(subCerts, lookup.search)
           done == [lookup EXCEPT !.pc = "done", !.libOk = libOk]
       IN  lookup' =
             IF ~libOk THEN [done EXCEPT !.result = "LibError"]
             ELSE IF lookup.type \notin ValidCertTypes
                  THEN [done EXCEPT !.result = "InvalidType"]
             ELSE IF foundCert = NoRecord
                  THEN [done EXCEPT !.records = subCerts, !.result = "NotFound"]
             ELSE [done EXCEPT !.records = subCerts, !.result = "record",
                               !.value = foundCert]

\* getProfile after ioslib.provisioning.getProvisioningProfiles(): lines 352-372
GetProfileResume(libOk, subProfiles) ==
    /\ CertFrame
    /\ lookup.pc = "awaitLib"
    /\ lookup.fn = "getProfile"
    /\ LET foundProfile == ProfileScan(subProfiles, lookup.search)
           done == [lookup EXCEPT !.pc = "done", !.libOk = libOk]
       IN  lookup' =
             IF ~libOk THEN [done EXCEPT !.result = "LibError"]
             ELSE IF lookup.type \notin ValidProfileTypes
                  THEN [done EXCEPT !.result = "InvalidType"]
             ELSE IF foundProfile = NoRecord
                  THEN [done EXCEPT !.records = subProfiles, !.result = "NotFound"]
             ELSE [done EXCEPT !.records = subProfiles, !.result = "record",
                               !.value = foundProfile]

CertNext ==
    \/ \E type \in Types, search \in SearchTerms : GetCertCall(type, search)
    \/ \E type \in Types, search \in SearchTerms : GetProfileCall(type, search)
    \/ \E libOk \in BOOLEAN, subCerts \in RecordLists : GetCertResume(libOk, subCerts)
    \/ \E libOk \in BOOLEAN, subProfiles \in RecordLists :
         GetProfileResume(libOk, subProfiles)

(***************************************************************************)
(*                   The process list (ps-list) and its scans              *)
(***************************************************************************)
\* bound of the model: entries in the process list ps() returns
MaxProcs == 2

\* JavaScript's undefined, where a string or a record is expected
Undefined == "undefined"

\* A command line is kept as its pieces between single spaces, which is what
\* cmd.split(' ') yields; a needle without spaces is included in the command
\* line exactly when one piece includes it.
ProcCmds ==
    { <<"/proj/node_modules/.bin/appium", "--log-no-colors", "-a", "localhost",
        "-p", "4723", "--show-ios-log">>,
      <<"node_modules/.bin/appium", "-p", "4723", "-a">>,
      <<"node_modules/.bin/appium", "-a", "0.0.0.0", "-p">>,
      <<"node_modules/.bin/appium">>,
      <<"C:/proj/node_modules|.bin|appium.cmd", "-a", "127.0.0.1", "-p", "4724">>,
      <<"emulator", "-avd", "Pixel", "-wipe-data">>,
      <<"player", "--vm-name", "Nexus_5">> }

\* the pieces above that include a needle without being equal to it
ProperlyIncludes ==
    { <<"/proj/node_modules/.bin/appium", "node_modules/.bin/appium">>,
      <<"C:/proj/node_modules|.bin|appium.cmd", "node_modules|.bin|appium">>,
      <<"Nexus_5", "Nexus">> }

PieceIncludes(piece, needle) ==
    piece = needle \/ <<piece, needle>> \in ProperlyIncludes

\* x.cmd.includes(needle)
CmdIncludes(c, needle) ==
    \E i \in 1..Len(c) : PieceIncludes(c[i], needle)

\* what ps() may resolve to: entries are told apart by their pid
ProcLists ==
    UNION {{[i \in 1..n |-> [pid |-> i, cmd |-> f[i]]] : f \in [1..n -> ProcCmds]} :
           n \in 0..MaxProcs}

\* the undefined that Array.prototype.find returns when nothing matches
NoProc == [pid |-> 0, cmd |-> <<>>]

\* Array.prototype.find with x => x.cmd.includes(needle)
FindProc(list, needle) ==
    IF \E i \in 1..Len(list) : CmdIncludes(list[i].cmd, needle)
    THEN list[CHOOSE i \in 1..Len(list) :
                /\ CmdIncludes(list[i].cmd, needle)
                /\ \A j \in 1..(i - 1) : ~CmdIncludes(list[j].cmd, needle)]
    ELSE NoProc

\* line 193: path.join('node_modules', '.bin', 'appium'), with the host's
\* separator (written | for the backslash)
AppiumPath ==
    IF platform = "win32" THEN "node_modules|.bin|appium"
    ELSE "node_modules/.bin/appium"

\* history: how many entries of list are Appium server processes
AppiumEntries(list) ==
    Cardinality({i \in 1..Len(list) : CmdIncludes(list[i].cmd, AppiumPath)})

\* getAppium, lines 190-197, once ps() resolved to list
GetAppium(list) ==
    FindProc(list, AppiumPath)

\* Array.prototype.indexOf, 0-based, -1 when absent
IndexOf(args, x) ==
    IF \E i \in 1..Len(args) : args[i] = x
    THEN (CHOOSE i \in 1..Len(args) :
            args[i] = x /\ \A j \in 1..(i - 1) : args[j] # x) - 1
    ELSE -1

\* args[n] for a 0-based n
ArgAt(args, n) ==
    IF n + 1 \in 1..Len(args) THEN args[n + 1] ELSE Undefined

(***************************************************************************)
(*                        startClient / stopClient                         *)
(***************************************************************************)
\* bound of the model: drivers wd.promiseChainRemote creates in one run
MaxDrivers == 2

PlatformNames == {"iOS", "Android", "Windows"}

\* drivers are numbered from 1 in the order they are created
NoDriver == 0

\* lines 25-37: the fields startClient sets on the capabilities
Capabilities(platformName) ==
    [platformName |-> platformName,
     automationName |-> CASE platformName = "iOS" -> "XCUITest"
                          [] platformName = "Android" -> "Appium"
                          [] OTHER -> Undefined,
     deviceReadyTimeout |-> IF platformName = "Android" THEN 60 ELSE -1,
     newCommandTimeout |-> 60 * 10]

StartIdle ==
    [pc |-> "idle", promise |-> "none", capabilities |-> Capabilities("Windows"),
     matches |-> 0, host |-> Undefined, port |-> Undefined, driver |-> NoDriver,
     initCalled |-> FALSE]

\* desired: the capabilities of the session hold a `desired` object (kept
\* for Android, the one platform on which stopClient reads it)
StopIdle ==
    [pc |-> "idle", result |-> "none", driver |-> NoDriver, platform |-> Undefined,
     desired |-> TRUE, calls |-> <<>>]

ClientQuiet ==
    /\ start.pc \in {"idle", "threw", "done"}
    /\ stop.pc \in {"idle", "done"}

Logged(op) ==
    IF Len(opLog) < 2 THEN Append(opLog, op) ELSE <<opLog[2], op>>

\* startClient up to `await getAppium()`: lines 22-48
StartClientCall(platformName) ==
    /\ ClientFrame
    /\ ClientQuiet
    /\ nextDriver <= MaxDrivers
    /\ start' = [StartIdle EXCEPT !.pc = "awaitPs", !.promise = "pending",
                                  !.capabilities = Capabilities(platformName)]
    /\ opLog' = Logged("startClient")
    /\ UNCHANGED <<globalDriver, globalWebdriver, nextDriver, drivers, stop>>

\* lines 53-55
LocateRejects(host, port) ==
    host = Undefined \/ port = Undefined

\* startClient after getAppium() resolved to the scan of list: lines 48-68.
\* processInfo.cmd of an undefined processInfo throws inside the async
\* executor: the executor's own promise rejects and nothing settles the
\* promise startClient returned.
StartClientThrows(list) ==
    /\ ClientFrame
    /\ start.pc = "awaitPs"
    /\ GetAppium(list) = NoProc
    /\ start' = [start EXCEPT !.pc = "threw", !.matches = AppiumEntries(list)]
    /\ UNCHANGED <<globalDriver, globalWebdriver, nextDriver, drivers, stop, opLog>>

\* the reject of line 54 does not return: the driver is created, published
\* and initialised all the same
StartClientResume(list) ==
    /\ ClientFrame
    /\ start.pc = "awaitPs"
    /\ GetAppium(list) # NoProc
    /\ LET processInfo == GetAppium(list)
           args == processInfo.cmd
           host == ArgAt(args, IndexOf(args, "-a") + 1)
           port == ArgAt(args, IndexOf(args, "-p") + 1)
           driver == nextDriver
       IN  /\ start' = [start EXCEPT
                          !.pc = "awaitInit", !.matches = AppiumEntries(list),
                          !.host = host, !.port = port,
                          !.driver = driver, !.initCalled = TRUE,
                          !.promise = IF LocateRejects(host, port)
                                      THEN Settle(@, "rejLocate") ELSE @]
           /\ drivers' = [drivers EXCEPT ![driver] = "initializing"]
           /\ globalDriver' = driver
           /\ globalWebdriver' = "wd"
           /\ nextDriver' = nextDriver + 1
    /\ UNCHANGED <<stop, opLog>>

\* the callback of driver.init: lines 66-68
InitCallback(err) ==
    /\ ClientFrame
    /\ start.pc = "awaitInit"
    /\ start' = [start EXCEPT !.pc = "done",
                              !.promise = Settle(@, IF err THEN "rejInit" ELSE "resolved")]
    /\ drivers' = [drivers EXCEPT ![start.driver] =
                     IF err THEN "failed" ELSE "open"]
    /\ UNCHANGED <<globalDriver, globalWebdriver, nextDriver, stop, opLog>>

\* faulty variant: no `if (driver)` around the teardown
StopClientCallAlways ==
    /\ ClientFrame
    /\ ClientQuiet
    /\ stop' = [StopIdle EXCEPT !.pc = "awaitCaps", !.result = "pending",
                                !.driver = globalDriver,
                                !.calls = <<"sessionCapabilities">>]
    /\ opLog' = Logged("stopClient")
    /\ UNCHANGED <<globalDriver, globalWebdriver, nextDriver, drivers, start>>

\* stopClient up to its first await: lines 76-83
StopClientCall ==
    /\ ClientFrame
    /\ ClientQuiet
    /\ stop' = IF globalDriver = NoDriver
               THEN [StopIdle EXCEPT !.pc = "done", !.result = "resolved"]
               ELSE [StopIdle EXCEPT !.pc = "awaitCaps", !.result = "pending",
                                     !.driver = globalDriver,
                                     !.calls = <<"sessionCapabilities">>]
    /\ opLog' = Logged("stopClient")
    /\ UNCHANGED <<globalDriver, globalWebdriver, nextDriver, drivers, start>>

\* faulty variant: a failed teardown forgets the driver, as a finally would
StopFailsClearing ==
    /\ stop' = [stop EXCEPT !.pc = "done", !.result = "rejected"]
    /\ globalDriver' = NoDriver
    /\ UNCHANGED <<globalWebdriver, nextDriver, drivers, start, opLog>>

\* an awaited driver call rejected, or the argument of removeApp threw: the
\* async function ends there, lines 83-95
StopFails ==
    /\ stop' = [stop EXCEPT !.pc = "done", !.result = "rejected"]
    /\ UNCHANGED <<globalDriver, globalWebdriver, nextDriver, drivers, start, opLog>>

\* driver.sessionCapabilities() settled, with the platformName the server
\* reports for the session and with or without a `desired` object in the
\* capabilities: lines 83-87
CapsReturn(ok, platformName, desired) ==
    /\ ClientFrame
    /\ stop.pc = "awaitCaps"
    /\ IF ok
       THEN /\ stop' = [stop EXCEPT !.pc = "awaitClose",
                                    !.platform = platformName,
                                    !.desired = (platformName # "Android"
                                                   \/ desired),
                                    !.calls = Append(@, "closeApp")]
            /\ UNCHANGED <<globalDriver, globalWebdriver, nextDriver, drivers,
                           start, opLog>>
       ELSE StopFails

\* faulty variant: the two identifiers the wrong way round
RemoveAppIdSwapped(p) ==
    IF p = "iOS" THEN "desired.appPackage" ELSE "CFBundleIdentifier"

\* line 91: the identifier handed to removeApp
RemoveAppId(p) ==
    IF p = "iOS" THEN "CFBundleIdentifier" ELSE "desired.appPackage"

\* driver.closeApp() settled: lines 87-95. On Android the argument of
\* removeApp is capabilities.desired.appPackage: without a `desired` object
\* its evaluation throws before removeApp is called.
CloseReturn(ok) ==
    /\ ClientFrame
    /\ stop.pc = "awaitClose"
    /\ IF ok /\ ~(stop.platform = "Android" /\ ~stop.desired)
       THEN /\ stop' = IF stop.platform = "Android" \/ stop.platform = "iOS"
                       THEN [stop EXCEPT !.pc = "awaitRemove",
                                         !.calls = Append(@, "removeApp:" \o
                                                     RemoveAppId(stop.platform))]
                       ELSE [stop EXCEPT !.pc = "awaitQuit",
                                         !.calls = Append(@, "quit")]
            /\ UNCHANGED <<globalDriver, globalWebdriver, nextDriver, drivers,
                           start, opLog>>
       ELSE StopFails

\* driver.removeApp(...) settled: lines 91-95
RemoveReturn(ok) ==
    /\ ClientFrame
    /\ stop.pc = "awaitRemove"
    /\ IF ok
       THEN /\ stop' = [stop EXCEPT !.pc = "awaitQuit", !.calls = Append(@, "quit")]
            /\ UNCHANGED <<globalDriver, globalWebdriver, nextDriver, drivers,
                           start, opLog>>
       ELSE StopFails

\* driver.quit() settled: lines 95-98
QuitReturn(ok) ==
    /\ ClientFrame
    /\ stop.pc = "awaitQuit"
    /\ IF ok
       THEN /\ stop' = [stop EXCEPT !.pc = "done", !.result = "resolved"]
            /\ drivers' = [drivers EXCEPT ![stop.driver] = "quit"]
            /\ globalDriver' = NoDriver
            /\ UNCHANGED <<globalWebdriver, nextDriver, start, opLog>>
       ELSE StopFails

ClientNext ==
    \/ \E platformName \in PlatformNames : StartClientCall(platformName)
    \/ \E list \in ProcLists : StartClientThrows(list)
    \/ \E list \in ProcLists : StartClientResume(list)
    \/ \E err \in BOOLEAN : InitCallback(err)
    \/ StopClientCall
    \/ \E ok \in BOOLEAN, platformName \in PlatformNames, desired \in BOOLEAN :
         CapsReturn(ok, platformName, desired)
    \/ \E ok \in BOOLEAN : CloseReturn(ok)
    \/ \E ok \in BOOLEAN : RemoveReturn(ok)
    \/ \E ok \in BOOLEAN : QuitReturn(ok)

(***************************************************************************)
(*                      runAppium / quitServ / killEmu                     *)
(***************************************************************************)
\* line 113
ValidAddresses == {"localhost", "0.0.0.0", "127.0.0.1"}

\* the hostname and port options tried
Hostnames == ValidAddresses \cup {"10.0.0.5", "appium.example.com"}
Ports == {"4723", "4724"}

DeviceNames == {"Pixel", "Nexus", "Galaxy"}

\* lines 116-126: the switch on process.platform has no default case
AppiumExe ==
    CASE platform = "darwin" -> "appium"
      [] platform = "win32" -> "appium.cmd"
      [] OTHER -> Undefined

\* first: history, the first stdout chunk announcing the start, stderr data
\* or 'error' event of the child process; late: history, one more of them
\* came after the first
AppiumIdle ==
    [pc |-> "idle", hostname |-> Undefined, port |-> Undefined,
     promise |-> "none", exe |-> "none", output |-> FALSE,
     first |-> "none", late |-> FALSE]

\* history: the event is the first of the deciding ones, or a later one
Noted(a, event) ==
    IF a.first = "none" THEN [a EXCEPT !.first = event]
    ELSE [a EXCEPT !.late = TRUE]

\* runAppium, lines 108-159, up to the return of the promise.
\* path.join throws a TypeError on an undefined piece; thrown inside the
\* executor, it rejects the promise before spawn is reached.
RunAppium(hostname, port) ==
    /\ ServFrame
    /\ appium.pc \in {"idle", "done"}
    /\ appium' =
         IF hostname \in ValidAddresses
         THEN IF AppiumExe = Undefined
              THEN [AppiumIdle EXCEPT !.pc = "done", !.hostname = hostname,
                                      !.port = port, !.promise = "rejTypeError"]
              ELSE [AppiumIdle EXCEPT !.pc = "running", !.hostname = hostname,
                                      !.port = port, !.promise = "pending",
                                      !.exe = AppiumExe]
         ELSE [AppiumIdle EXCEPT !.pc = "done", !.hostname = hostname,
                                 !.port = port, !.promise = "rejExternal"]
    /\ UNCHANGED serv

\* the child process goes away; no handler of runAppium listens for it
AppiumExits ==
    /\ ServFrame
    /\ appium.pc = "running"
    /\ appium' = [appium EXCEPT !.pc = "done"]
    /\ UNCHANGED serv

\* The chunks the child process may write to stdout, trimmed: a chunk that
\* holds 'started on <host>:<port>', followed by more text (tail) or not,
\* or a chunk without 'started on'.
ChunkHosts == {"localhost", "0.0.0.0", "0x0y0z0"}

Chunks ==
    {[kind |-> "started", host |-> h, port |-> p, tail |-> t] :
       h \in ChunkHosts, p \in Ports, t \in BOOLEAN}
    \cup {[kind |-> "other", host |-> "", port |-> "", tail |-> FALSE]}

\* the texts a hostname matches as a regular expression without being equal
\* to it: its dots stand for any character
DotMatches == {<<"0.0.0.0", "0x0y0z0">>}

\* lines 139-141: new RegExp(`started on ${hostname}\\:${port}$`).test(line)
IsRunning(chunk, hostname, port) ==
    /\ chunk.kind = "started"
    /\ chunk.host = hostname \/ <<hostname, chunk.host>> \in DotMatches
    /\ chunk.port = port
    /\ ~chunk.tail

\* output.finish(resolve, appiumServer), of output.js: calls resolve
OutputFinish(promise) ==
    Settle(promise, "resolved")

\* lines 136-146: data on stdout
AppiumStdout(chunk) ==
    /\ ServFrame
    /\ appium.pc = "running"
    /\ appium' = IF IsRunning(chunk, appium.hostname, appium.port)
                 THEN [Noted(appium, "started") EXCEPT
                         !.output = TRUE, !.promise = OutputFinish(@)]
                 ELSE [appium EXCEPT !.output = TRUE]
    /\ UNCHANGED serv

\* faulty variant: no listener rejects on stderr data
AppiumStderrIgnored ==
    /\ ServFrame
    /\ appium.pc = "running"
    /\ appium' = [Noted(appium, "stderr") EXCEPT !.output = TRUE]
    /\ UNCHANGED serv

\* lines 148-150: data on stderr
AppiumStderr ==
    /\ ServFrame
    /\ appium.pc = "running"
    /\ appium' = [Noted(appium, "stderr") EXCEPT
                    !.output = TRUE, !.promise = Settle(@, "rejStderr")]
    /\ UNCHANGED serv

\* lines 152-154: the 'error' event of the child process
AppiumError ==
    /\ ServFrame
    /\ appium.pc = "running"
    /\ appium' = [Noted(appium, "error") EXCEPT
                    !.output = TRUE, !.promise = Settle(@, "rejError")]
    /\ UNCHANGED serv

NoKill == [tool |-> "none", pid |-> 0]

ServIdle ==
    [op |-> "none", pc |-> "idle", deviceName |-> Undefined, matches |-> 0,
     result |-> "none", kill |-> NoKill]

\* lines 175-181 and 294-300: the kill command by platform
KillCmd(pid) ==
    IF platform = "win32" THEN [tool |-> "taskkill /F /PID", pid |-> pid]
    ELSE [tool |-> "kill -9", pid |-> pid]

\* quitServ up to `await getAppium()`: lines 164-167
QuitServCall ==
    /\ ServFrame
    /\ serv.pc \in {"idle", "done"}
    /\ serv' = [ServIdle EXCEPT !.op = "quitServ", !.pc = "awaitPs",
                                !.result = "pending"]
    /\ UNCHANGED appium

\* faulty variant: processInfo is not checked
PidMissingNever(processInfo) ==
    FALSE

\* lines 169-173: the check of processInfo
PidMissing(processInfo) ==
    processInfo = NoProc

\* quitServ after getAppium() resolved: lines 167-183.
\* execSync throws when the kill command fails.
QuitServResume(list, execOk) ==
    /\ ServFrame
    /\ serv.pc = "awaitPs"
    /\ serv.op = "quitServ"
    /\ LET processInfo == GetAppium(list)
           done == [serv EXCEPT !.pc = "done", !.matches = AppiumEntries(list)]
       IN  serv' =
             IF PidMissing(processInfo)
             THEN [done EXCEPT !.result = "PID for Appium not found!"]
             ELSE [done EXCEPT
                     !.kill = KillCmd(processInfo.pid),
                     !.result = IF execOk THEN "resolved" ELSE "execError"]
    /\ UNCHANGED appium

\* history: how many entries of list run the device
DeviceEntries(list, deviceName) ==
    Cardinality({i \in 1..Len(list) : CmdIncludes(list[i].cmd, deviceName)})

\* getAndroidPID, lines 382-393, once ps() resolved to list: proc.pid of an
\* undefined proc throws, and the catch rethrows the 'Cannot find' error
GetAndroidPID(list, deviceName) ==
    LET proc == FindProc(list, deviceName)
    IN  IF proc = NoProc THEN [ok |-> FALSE, pid |-> 0]
        ELSE [ok |-> TRUE, pid |-> proc.pid]

\* killEmu up to `await getAndroidPID(deviceName)`: lines 289-290
KillEmuCall(deviceName) ==
    /\ ServFrame
    /\ serv.pc \in {"idle", "done"}
    /\ serv' = [ServIdle EXCEPT !.op = "killEmu", !.pc = "awaitPs",
                                !.deviceName = deviceName, !.result = "pending"]
    /\ UNCHANGED appium

\* killEmu after getAndroidPID settled: lines 290-300
KillEmuResume(list, execOk) ==
    /\ ServFrame
    /\ serv.pc = "awaitPs"
    /\ serv.op = "killEmu"
    /\ LET devicePID == GetAndroidPID(list, serv.deviceName)
           done == [serv EXCEPT !.pc = "done",
                                !.matches = DeviceEntries(list, serv.deviceName)]
       IN  serv' =
             IF ~devicePID.ok
             THEN [done EXCEPT !.result = "Cannot find an Android PID for " \o
                                          serv.deviceName]
             ELSE [done EXCEPT !.kill = KillCmd(devicePID.pid),
                               !.result = IF execOk THEN "resolved" ELSE "execError"]
    /\ UNCHANGED appium

ServNext ==
    \/ \E hostname \in Hostnames, port \in Ports : RunAppium(hostname, port)
    \/ AppiumExits
    \/ \E chunk \in Chunks : AppiumStdout(chunk)
    \/ AppiumStderr
    \/ AppiumError
    \/ QuitServCall
    \/ \E list \in ProcLists, execOk \in BOOLEAN : QuitServResume(list, execOk)
    \/ \E deviceName \in DeviceNames : KillEmuCall(deviceName)
    \/ \E list \in ProcLists, execOk \in BOOLEAN : KillEmuResume(list, execOk)

(***************************************************************************)
(*                         launchEmu / launchGeny                          *)
(***************************************************************************)
\* entries: history, how many entries of the process list run the device;
\* spawned: the childProcess.spawn calls made
LaunchIdle ==
    [fn |-> "none", pc |-> "idle", deviceName |-> Undefined, entries |-> 0,
     result |-> "none", spawned |-> <<>>]

LaunchFns == {"launchEmu", "launchGeny"}

\* launchEmu / launchGeny up to `await getAndroidPID(deviceName)`:
\* lines 216-220 and 245-249
LaunchCall(fn, deviceName) ==
    /\ LaunchFrame
    /\ launch.pc = "idle"
    /\ launch' = [LaunchIdle EXCEPT !.fn = fn, !.pc = "awaitPs",
                                    !.deviceName = deviceName,
                                    !.result = "pending"]
    /\ UNCHANGED bootVars

\* faulty variant: the device is never taken as booted
AlreadyBootedNever(list, deviceName) ==
    FALSE

\* lines 217-221 and 246-250: getAndroidPID returned, the catch is skipped
AlreadyBooted(list, deviceName) ==
    GetAndroidPID(list, deviceName).ok

\* line 227, with process.env.ANDROID_HOME set
EmulatorCmd == "ANDROID_HOME/emulator/emulator"

\* line 256: path.join() without pieces is '.'
PlayerCmd ==
    IF platform = "darwin"
    THEN "/Applications/Genymotion.app/Contents/MacOS/player.app/Contents/MacOS/player"
    ELSE "."

\* lines 226-230 and 255-259: the childProcess.spawn call
Spawn(fn, deviceName) ==
    IF fn = "launchEmu"
    THEN [cmd |-> EmulatorCmd, args |-> <<"-avd", deviceName, "-wipe-data">>,
          shell |-> FALSE]
    ELSE [cmd |-> PlayerCmd, args |-> <<"--vm-name", deviceName>>,
          shell |-> TRUE]

\* lines 232 and 261: the argument of checkBooted
BootPlatformOf(fn) ==
    IF fn = "launchEmu" THEN "emulator" ELSE "genymotion"

\* after getAndroidPID settled on the process list: lines 220-232 and
\* 249-261, up to `await checkBooted(...)`
LaunchResume(list) ==
    /\ LaunchFrame
    /\ launch.pc = "awaitPs"
    /\ LET seen == [launch EXCEPT
                      !.entries = DeviceEntries(list, launch.deviceName)]
       IN  IF AlreadyBooted(list, launch.deviceName)
           THEN /\ launch' = [seen EXCEPT !.pc = "done", !.result = "resolved"]
                /\ UNCHANGED bootVars
           ELSE /\ launch' = [seen EXCEPT
                                !.pc = "awaitBoot",
                                !.spawned = Append(@, Spawn(launch.fn,
                                                           launch.deviceName))]
                /\ CheckBooted(BootPlatformOf(launch.fn))

\* the promise of checkBooted settled: the await of line 232 / 261 returns
\* or throws, and the async function ends with it
LaunchBootSettled ==
    /\ LaunchFrame
    /\ launch.pc = "awaitBoot"
    /\ bootPromise \notin {"none", "pending"}
    /\ launch' = [launch EXCEPT
                    !.pc = "done",
                    !.result = IF bootPromise = "resolved" THEN "resolved"
                               ELSE "rejected"]
    /\ UNCHANGED bootVars

LaunchNext ==
    \/ \E fn \in LaunchFns, deviceName \in DeviceNames : LaunchCall(fn, deviceName)
    \/ \E list \in ProcLists : LaunchResume(list)
    \/ BootTimeoutFires
    \/ IntervalTick
    \/ \E stopped \in BOOLEAN, error \in BOOLEAN : ExecCallback(stopped, error)
    \/ LaunchBootSettled

(***************************************************************************)
(*                           The specifications                            *)
(***************************************************************************)
ClientIdle ==
    /\ globalDriver = NoDriver
    /\ globalWebdriver = Absent
    /\ nextDriver = 1
    /\ drivers = [d \in 1..MaxDrivers |-> "none"]
    /\ start = StartIdle
    /\ stop = StopIdle
    /\ opLog = <<>>

ServIdleState ==
    /\ appium = AppiumIdle
    /\ serv = ServIdle

Init ==
    /\ BootIdle
    /\ lookup = LookupIdle
    /\ ClientIdle
    /\ ServIdleState
    /\ launch = LaunchIdle
    /\ platform \in Platforms

SpecBoot ==
    Init /\ [][BootNext]_vars

\* checkBooted with timers that fire and exec calls that complete: an armed
\* timeout fires, an active interval ticks, an issued query has its callback
\* run
BootFairness ==
    /\ WF_vars(BootTimeoutFires)
    /\ WF_vars(IntervalTick)
    /\ WF_vars(\E stopped \in BOOLEAN, error \in BOOLEAN :
                 ExecCallback(stopped, error))

SpecBootFair ==
    Init /\ [][BootNext]_vars /\ BootFairness

SpecCert ==
    Init /\ [][CertNext]_vars

SpecClient ==
    Init /\ [][ClientNext]_vars

SpecServ ==
    Init /\ [][ServNext]_vars

SpecLaunch ==
    Init /\ [][LaunchNext]_vars

(***************************************************************************)
(*                        Properties of checkBooted                        *)
(***************************************************************************)
\* C2: while every processed result lacks 'stopped' and carries no error, the
\* promise stays pending and the interval stays active through results 1..19,
\* and the 20th such result rejects the promise with the timeout message and
\* cancels the interval.
C2_TimeoutAfterTwentyPolls ==
    plainRun =>
      /\ count \in 1..(MaxSequences - 1) =>
           bootPromise = "pending" /\ interval = "active"
      /\ count >= MaxSequences =>
           bootPromise = "rejTimeout" /\ interval = "cleared"

\* the 20th plain result has just been processed and rejected the promise
C2_Witness ==
    /\ plainRun
    /\ count = MaxSequences
    /\ bootPromise = "rejTimeout"
    /\ interval = "cleared"

\* C3: the first result whose stdout contains 'stopped', at any poll number
\* 1..20 and after plain results only, resolves the promise and cancels the
\* interval while it is processed (so no earlier plain result rejected it).
C3_ResolvesOnStopped ==
    (/\ lastResult.seen
     /\ lastResult.afterPlain
     /\ lastResult.stopped
     /\ count <= MaxSequences) =>
      bootPromise = "resolved" /\ interval = "cleared"

\* 'stopped' arrives on the very last poll, after 19 plain results
C3_Witness ==
    /\ lastResult.seen
    /\ lastResult.afterPlain
    /\ lastResult.stopped
    /\ count = MaxSequences
    /\ bootPromise = "resolved"

\* C4 as claimed: on whichever poll 1..20 the query completes with a command
\* error (stdout lacking 'stopped', after plain results only), the promise is
\* rejected with that error and the interval is cancelled.
C4_RejectsWithThatError ==
    (/\ lastResult.seen
     /\ lastResult.afterPlain
     /\ lastResult.error
     /\ ~lastResult.stopped
     /\ count <= MaxSequences) =>
      bootPromise = "rejError" /\ interval = "cleared"

\* C4 as amended: a result with a command error and without 'stopped', after
\* plain results only, cancels the interval and rejects the promise while it
\* is processed: with that error on polls 1..19, with the timeout message on
\* poll 20; and once the interval is cancelled no query is issued again.
C4_ErrorAbortsPolling ==
    /\ [](( /\ lastResult.seen
            /\ lastResult.afterPlain
            /\ lastResult.error
            /\ ~lastResult.stopped
            /\ count <= MaxSequences) =>
             /\ interval = "cleared"
             /\ bootPromise = IF count < MaxSequences THEN "rejError"
                              ELSE "rejTimeout")
    /\ [][interval = "cleared" => issued' = issued]_vars

\* a command error on an early poll has rejected the promise with that error
\* while another query was still outstanding
C4_Witness ==
    /\ lastResult.seen
    /\ lastResult.afterPlain
    /\ lastResult.error
    /\ ~lastResult.stopped
    /\ count = 3
    /\ inFlight = 1
    /\ bootPromise = "rejError"
    /\ interval = "cleared"

\* C19: one call of checkBooted issues at most 20 boot-animation queries,
\* under every interleaving of ticks and results; once its promise has
\* settled no query is issued any more, and a result that arrives afterwards
\* does not change the outcome.
C19_AtMostTwentyQueries ==
    /\ [](issued <= MaxSequences)
    /\ [][bootPromise \notin {"none", "pending"} =>
            (issued' = issued /\ bootPromise' = bootPromise)]_vars

\* C20: checkBooted terminates. With timers that fire and queries that
\* complete, a pending promise is eventually settled with the interval
\* cancelled, whatever the results are; and no query is issued before the
\* initial delay has elapsed.
C20_CheckBootedTerminates ==
    /\ [](bootTimeout # "fired" => (issued = 0 /\ interval = "none"))
    /\ (bootPromise = "pending") ~>
         (bootPromise \in {"resolved", "rejTimeout", "rejError"}
            /\ interval = "cleared")

\* the boot animation stopped at the seventh result, with one more query
\* still outstanding
C20_Witness ==
    /\ bootPromise = "resolved"
    /\ interval = "cleared"
    /\ count = 7
    /\ inFlight = 1

(***************************************************************************)
(*                    Properties of getCert / getProfile                   *)
(***************************************************************************)
\* the lookup ran to its end on the supported host with a valid type, and
\* ioslib returned its records
LookupScanned ==
    /\ lookup.pc = "done"
    /\ platform = "darwin"
    /\ lookup.libOk
    /\ \/ lookup.fn = "getCert" /\ lookup.type \in ValidCertTypes
       \/ lookup.fn = "getProfile" /\ lookup.type \in ValidProfileTypes

\* the positions of the returned records that match the search term: a name
\* containing it for certificates, a name equal to it for profiles
MatchingRecords ==
    {i \in 1..Len(lookup.records) :
       IF lookup.fn = "getCert"
       THEN Includes(lookup.records[i].name, lookup.search)
       ELSE lookup.records[i].name = lookup.search}

\* C5: an invalid-type error is never preceded or accompanied by a call to
\* ioslib.certs.getCerts / ioslib.provisioning.getProvisioningProfiles.
C5_InvalidTypeBeforeLibrary ==
    lookup.result = "InvalidType" => ~lookup.libCalled

\* C6 as claimed: a record is returned only when exactly one record of the
\* requested type matches, and an error is raised when zero or more than one
\* record matches.
C6_ExactlyOneMatchAccepted ==
    LookupScanned =>
      /\ lookup.result = "record" <=> Cardinality(MatchingRecords) = 1
      /\ Cardinality(MatchingRecords) # 1 => lookup.result = "NotFound"

\* C6 as amended: a record is returned exactly when at least one record of the
\* requested type matches, and it is one of the matching records; the 'not
\* found' error is raised exactly when no record matches. Several matches are
\* not an error.
C6_AnyMatchAccepted ==
    LookupScanned =>
      /\ MatchingRecords # {} =>
           /\ lookup.result = "record"
           /\ \E i \in MatchingRecords : lookup.value = lookup.records[i]
      /\ MatchingRecords = {} =>
           lookup.result = "NotFound" /\ lookup.value = NoRecord

\* two certificates match the search term and one of them is returned
C6_Witness ==
    /\ LookupScanned
    /\ lookup.fn = "getCert"
    /\ Cardinality(MatchingRecords) = 2
    /\ lookup.result = "record"

\* C7: getCert with type 'developer' on the supported host returns the record
\* whose name contains the search term when exactly one does, and raises the
\* 'No certificate found' error, returning nothing, when none does.
C7_DeveloperCertLookup ==
    (/\ LookupScanned
     /\ lookup.fn = "getCert"
     /\ lookup.type = "developer") =>
      /\ \A i \in 1..Len(lookup.records) :
           (\A j \in 1..Len(lookup.records) :
              Includes(lookup.records[j].name, lookup.search) <=> j = i) =>
             lookup.result = "record" /\ lookup.value = lookup.records[i]
      /\ (\A j \in 1..Len(lookup.records) :
            ~Includes(lookup.records[j].name, lookup.search)) =>
           lookup.result = "NotFound" /\ lookup.value = NoRecord

\* of two developer certificates, only the first contains the search term as
\* a proper part of its name, and it is the one returned
C7_Witness ==
    /\ LookupScanned
    /\ lookup.fn = "getCert"
    /\ lookup.type = "developer"
    /\ Len(lookup.records) = 2
    /\ lookup.search = <<"a">>
    /\ lookup.records[1].name = <<"b", "a">>
    /\ lookup.records[2].name = <<"b">>
    /\ lookup.result = "record"
    /\ lookup.value = lookup.records[1]

\* C13: on every host other than darwin a call of getCert or getProfile has
\* returned undefined at once, whatever the type (valid or not) and the
\* search term: it raised nothing and did not call ioslib.
C13_OtherHostsReturnUndefined ==
    (platform # "darwin" /\ lookup.pc # "idle") =>
      /\ lookup.pc = "done"
      /\ lookup.result = "undefined"
      /\ ~lookup.libCalled
      /\ lookup.value = NoRecord

\* getProfile with a type that is valid for certificates only, on Windows
C13_Witness ==
    /\ platform = "win32"
    /\ lookup.fn = "getProfile"
    /\ lookup.type = "developer"
    /\ lookup.pc = "done"
    /\ lookup.result = "undefined"

C8_StopWithoutSessionIsNoOp ==
    (stop.pc # "idle" /\ stop.driver = NoDriver) =>
      /\ stop.pc = "done"
      /\ stop.result = "resolved"
      /\ stop.calls = <<>>
      /\ (opLog # <<>> /\ opLog[Len(opLog)] = "stopClient") =>
           globalDriver = NoDriver

\* stopClient called twice in a row: the first call tore the session down and
\* cleared the reference, the second found nothing to do
C8_Witness ==
    /\ opLog = <<"stopClient", "stopClient">>
    /\ drivers[1] = "quit"
    /\ stop.pc = "done"
    /\ stop.result = "resolved"
    /\ stop.calls = <<>>
    /\ globalDriver = NoDriver

\* C10: when the process list holds no Appium server process, startClient's
\* promise ends up rejected (neither pending nor resolved) once startClient
\* has run as far as it goes, and no driver is created or stored.
C10_NoServerRejects ==
    (start.pc \in {"threw", "done"} /\ start.matches = 0) =>
      /\ start.promise \notin {"none", "pending", "resolved"}
      /\ start.driver = NoDriver
      /\ ~start.initCalled

LastOp ==
    IF opLog = <<>> THEN "none" ELSE opLog[Len(opLog)]

\* the driver calls of a complete teardown, by the platform of the session
TeardownCalls(p) ==
    CASE p = "iOS" -> <<"sessionCapabilities", "closeApp",
                        "removeApp:CFBundleIdentifier", "quit">>
      [] p = "Android" -> <<"sessionCapabilities", "closeApp",
                            "removeApp:desired.appPackage", "quit">>
      [] OTHER -> <<"sessionCapabilities", "closeApp", "quit">>

\* C12: stopClient with a session calls sessionCapabilities, closeApp,
\* removeApp (with CFBundleIdentifier on iOS, desired.appPackage on Android;
\* skipped on any other platform) and quit in this order, each after the one
\* before it has completed, and then clears global.driver: after a
\* successful stopClient the driver has quit and the reference is absent.
C12_TeardownInOrder ==
    stop.driver # NoDriver =>
      /\ stop.pc = "awaitCaps" => stop.calls = <<"sessionCapabilities">>
      /\ stop.pc = "awaitClose" =>
           stop.calls = <<"sessionCapabilities", "closeApp">>
      /\ stop.pc = "awaitRemove" =>
           /\ stop.platform \in {"iOS", "Android"}
           /\ stop.calls = SubSeq(TeardownCalls(stop.platform), 1, 3)
      /\ stop.pc = "awaitQuit" => stop.calls = TeardownCalls(stop.platform)
      /\ stop.result = "resolved" =>
           /\ stop.calls = TeardownCalls(stop.platform)
           /\ drivers[stop.driver] = "quit"
           /\ LastOp = "stopClient" => globalDriver = NoDriver

\* an iOS session torn down completely
C12_Witness ==
    /\ stop.driver # NoDriver
    /\ stop.platform = "iOS"
    /\ stop.result = "resolved"
    /\ Len(stop.calls) = 4
    /\ globalDriver = NoDriver

\* C16: once startClient has rejected with 'Cannot locate Appium server
\* details' it does nothing more: that call has created no remote driver,
\* has not called driver.init, and so has no driver to store in
\* global.driver.
C16_LocateRejectStops ==
    start.promise = "rejLocate" =>
      /\ start.driver = NoDriver
      /\ ~start.initCalled

\* C17: a failure leaves the shared state as it was at that point. When
\* driver.init failed, the promise of startClient is rejected and
\* global.driver still refers to the driver that was not initialised. When a
\* step of stopClient failed, stopClient is rejected, the steps after the
\* failed one were not made (the calls made are a beginning of the full
\* teardown and the driver has not quit), and global.driver still refers to
\* the same driver, on which a later stopClient acts again.
C17_FailureLeavesDriver ==
    /\ (start.pc = "done" /\ LastOp = "startClient"
          /\ drivers[start.driver] = "failed") =>
         /\ start.promise \in {"rejInit", "rejLocate"}
         /\ globalDriver = start.driver
    /\ stop.result = "rejected" =>
         /\ stop.pc = "done"
         /\ stop.driver # NoDriver
         /\ Len(stop.calls) <= Len(TeardownCalls(stop.platform))
         /\ stop.calls = SubSeq(TeardownCalls(stop.platform), 1, Len(stop.calls))
         /\ LastOp = "stopClient" =>
              /\ globalDriver = stop.driver
              /\ drivers[stop.driver] # "quit"

\* stopClient called twice in a row on an iOS session: the second call acted
\* on the same driver and failed in removeApp, before quit
C17_Witness ==
    /\ opLog = <<"stopClient", "stopClient">>
    /\ stop.result = "rejected"
    /\ stop.platform = "iOS"
    /\ Len(stop.calls) = 3
    /\ stop.driver = 1
    /\ globalDriver = 1

\* C18: after any sequence of startClient and stopClient calls at most one
\* WebDriver session is open, and an open session is the one global.driver
\* refers to.
C18_SingleSession ==
    /\ Cardinality({d \in 1..MaxDrivers : drivers[d] = "open"}) <= 1
    /\ \A d \in 1..MaxDrivers : drivers[d] = "open" => globalDriver = d

(***************************************************************************)
(*               Properties of runAppium / quitServ / killEmu              *)
(***************************************************************************)
\* C1: after runAppium, a hostname among localhost, 0.0.0.0 and 127.0.0.1 has
\* the Appium binary spawned and the promise not rejected before the process
\* emits anything; any other hostname has the promise rejected with the
\* 'external server not supported' message and nothing spawned.
C1_HostnameGate ==
    appium.pc # "idle" =>
      IF appium.hostname \in ValidAddresses
      THEN /\ appium.exe # "none"
           /\ ~appium.output => appium.promise = "pending"
      ELSE /\ appium.promise = "rejExternal"
           /\ appium.exe = "none"

\* C9: when the process list has no entry whose command line contains the
\* Appium binary path (quitServ) or the device name (killEmu), the operation
\* fails with its 'PID not found' message and executes no kill command.
C9_NoPidNoKill ==
    (serv.pc = "done" /\ serv.matches = 0) =>
      /\ serv.kill = NoKill
      /\ serv.op = "quitServ" => serv.result = "PID for Appium not found!"
      /\ serv.op = "killEmu" =>
           serv.result = "Cannot find an Android PID for " \o serv.deviceName

\* quitServ on Windows found no Appium server among the processes
C9_Witness ==
    /\ serv.pc = "done"
    /\ serv.op = "quitServ"
    /\ serv.matches = 0
    /\ platform = "win32"
    /\ serv.result = "PID for Appium not found!"
    /\ serv.kill = NoKill

\* C11: once the process is spawned, the promise of runAppium is pending
\* until the first of these events and is settled by it for good: resolved
\* when a stdout chunk matching 'started on <hostname>:<port>' comes first,
\* rejected when stderr data or the 'error' event comes first; later events
\* do not change it.
C11_FirstEventDecides ==
    appium.exe # "none" =>
      /\ appium.first = "none" => appium.promise = "pending"
      /\ appium.first = "started" => appium.promise = "resolved"
      /\ appium.first = "stderr" => appium.promise = "rejStderr"
      /\ appium.first = "error" => appium.promise = "rejError"

\* a warning on stderr came first and the 'started on' line after it: the
\* promise stays rejected
C11_Witness ==
    /\ appium.exe # "none"
    /\ appium.first = "stderr"
    /\ appium.late
    /\ appium.promise = "rejStderr"

(***************************************************************************)
(*                  Properties of launchEmu / launchGeny                   *)
(***************************************************************************)
\* the arguments of the one process a launch spawns
LaunchArgs ==
    IF launch.fn = "launchEmu" THEN <<"-avd", launch.deviceName, "-wipe-data">>
    ELSE <<"--vm-name", launch.deviceName>>

\* C15: once launchEmu / launchGeny has seen the process list: when an entry
\* of the list has the device name in its command line, nothing is spawned,
\* checkBooted is not called and the launch has completed successfully;
\* otherwise exactly one process is spawned (for launchEmu the emulator with
\* -avd <name> -wipe-data, for launchGeny the player with --vm-name <name>),
\* checkBooted is called for it, and the launch is pending while checkBooted
\* is, resolved only after checkBooted resolved and rejected when it
\* rejected.
C15_LaunchOnlyWhenNotRunning ==
    launch.pc \in {"awaitBoot", "done"} =>
      IF launch.entries > 0
      THEN /\ launch.pc = "done"
           /\ launch.result = "resolved"
           /\ launch.spawned = <<>>
           /\ bootPromise = "none"
           /\ issued = 0
      ELSE /\ Len(launch.spawned) = 1
           /\ launch.spawned[1].args = LaunchArgs
           /\ launch.fn = "launchEmu" =>
                launch.spawned[1].cmd = "ANDROID_HOME/emulator/emulator"
           /\ bootPromise # "none"
           /\ cmd = "adb -e shell getprop init.svc.bootanim"
           /\ bootPromise = "pending" => launch.result = "pending"
           /\ launch.result = "resolved" => bootPromise = "resolved"
           /\ launch.pc = "done" =>
                (launch.result = "rejected") = (bootPromise # "resolved")

\* the emulator was not running, was spawned, and never booted: the launch
\* failed after the 20th poll
C15_Witness ==
    /\ launch.fn = "launchEmu"
    /\ launch.pc = "done"
    /\ launch.entries = 0
    /\ Len(launch.spawned) = 1
    /\ bootPromise = "rejTimeout"
    /\ launch.result = "rejected"

====
